---- MODULE Spec2Model ----
(***************************************************************************)
(* Recording playback engine of hlx-testengine (app/test_runner.py).       *)
(*                                                                         *)
(* run_test is modelled as a state machine whose positions are the await   *)
(* points of the coroutine.  The browser automation driver is the          *)
(* environment: every driver call either completes or raises, chosen       *)
(* nondeterministically where the call is made.                            *)
(*                                                                         *)
(* Strings are sequences of tokens (<<>> is the empty string), so that     *)
(* prefix tests and concatenations are computed as the code computes them. *)
(***************************************************************************)
EXTENDS Integers, Sequences, FiniteSets, TLC

\* ------------------------------------------------------------------ bounds
MaxSteps == 2          \* longest Recording explored
MaxCands == 2          \* largest count() a locator reports
MaxElapsed == 1        \* largest wall-clock reading (in ms) at the return
MaxFrames == 2         \* largest len(page.frames)
MaxPopups == 2         \* most pages the context opens besides the first
MaxParallel == 2       \* largest "parallel" of a /run-test request
MaxItems == 2          \* most items ever put on the queue

\* ------------------------------------------------------- program constants
MaxRetries == 10       \* max_retries default of _try_selectors_with_retries

\* ------------------------------------------------------------- exceptions
\* An exception in flight: its class as far as "except Exception" can tell,
\* and str(e).  NoExc is "nothing is being raised".
NoExc == [cls |-> "none", text |-> <<>>]
Exc(text) == [cls |-> "Exception", text |-> text]
Cancelled == [cls |-> "BaseException", text |-> <<"CancelledError">>]

\* str(e) of the failures the driver raises, by the call that raised.
DriverError(op) == Exc(<<"driver:", op>>)

\* ------------------------------------------------------------ the recording
\* A step: the fields of the recorded dict that run_test reads.
Step(type, url, selectors) ==
    [type |-> type, url |-> url, selectors |-> selectors,
     hasFrame |-> FALSE, frame |-> <<>>, assertedEvents |-> <<>>]
\* The same step with a "frame" key.
InFrame(s, path) == [s EXCEPT !.hasFrame = TRUE, !.frame = path]

\* An assert step with its "assertedEvents".
Asserting(events) == [Step("assert", <<>>, <<>>) EXCEPT !.assertedEvents = events]
Event(type, selector) == [type |-> type, selector |-> selector]

\* Events of the assert step explored: one with a supported selector, one of
\* a known kind with a selector the normalizer does not support, and a
\* navigation event.
AssertEvents ==
    << Event("textContent", <<"css/", "#a">>),
       Event("elementVisible", <<"aria/", "Submit">>),
       Event("navigation", <<>>) >>

\* Selector groups of the interactive step explored: an unsupported selector
\* first, then a supported one, then a second group.
ClickSelectors == << << <<"aria/", "Submit">>, <<"css/", "#a">> >>, << <<"#b">> >> >>

StepPool ==
    { Step("navigate", <<"https://", "example.test">>, <<>>),
      Step("navigate", <<"chrome://", "settings">>, <<>>),
      Step("click", <<>>, ClickSelectors),
      InFrame(Step("type", <<>>, <<>>), <<1>>),
      Step("switchToPopup", <<>>, <<>>),
      Step("switchToMain", <<>>, <<>>),
      Step("keyDown", <<>>, <<>>),
      Asserting(AssertEvents),
      Step("close", <<>>, <<>>),
      Step("foo", <<>>, <<>>) }

RECURSIVE SeqsUpTo(_, _)
SeqsUpTo(S, n) ==
    IF n = 0 THEN { <<>> }
    ELSE LET shorter == SeqsUpTo(S, n - 1)
         IN  shorter \cup { Append(s, x) : s \in shorter, x \in S }

Recordings == SeqsUpTo(StepPool, MaxSteps)


\* ---------------------------------------------------------------- the pages
NoPage == 0            \* page = None
MainPage == 1          \* the page opened by context.new_page()
\* The n-th page the context opened after it (the "page" event's new_page).
Popup(n) == MainPage + n

\* A frame is <<page, index in page.frames>>; main_frame is frames[0].
MainFrame(p) == <<p, 0>>

\* frames[step["frame"][0]] behind "if frame_index < len(frames)", with n =
\* len(frames): the index of the frame chosen, or InvalidFrame where the
\* code reaches a "continue" (the else branch, or the IndexError of an empty
\* path or of an index below -n taken by the except clause).
InvalidFrame == -1
FrameLookupClamped(path, n) ==
    IF path = <<>> THEN InvalidFrame
    ELSE IF path[1] >= n THEN n - 1
    ELSE IF path[1] >= 0 THEN path[1]
    ELSE IF path[1] >= -n THEN n + path[1]
    ELSE InvalidFrame
FrameLookup(path, n) ==
    IF path = <<>> THEN InvalidFrame
    ELSE IF path[1] >= n THEN InvalidFrame
    ELSE IF path[1] >= 0 THEN path[1]
    ELSE IF path[1] >= -n THEN n + path[1]
    ELSE InvalidFrame

\* current_frame for a step without a "frame" key: "if 'frame' in step" has
\* no else branch, the frame of the previous iteration stays.
FrameWithoutPathReset(f, p) == MainFrame(p)
FrameWithoutPath(f, p) == f

\* popup_pages[-1]
PopupTargetFirst(pp) == pp[1]
PopupTarget(pp) == pp[Len(pp)]

\* ------------------------------------------------------------------ result
\* ErrorMessage values.  NoneMsg is None; a step message is the f-string of
\* the step-level handler; StrMsg(e) is str(e).
NoneMsg == [kind |-> "None", index |-> 0, total |-> 0, type |-> "", text |-> <<>>]
StrMsg(e) == [kind |-> "str", index |-> 0, total |-> 0, type |-> "", text |-> e.text]

\* f"Steg {i+1}/{len(recording['steps'])} ({step_type}) misslyckades: {step_error}"
StepMessageZeroBased(idx, total, type, e) ==
    [kind |-> "step", index |-> idx, total |-> total, type |-> type, text |-> e.text]
StepMessage(idx, total, type, e) ==
    [kind |-> "step", index |-> idx + 1, total |-> total, type |-> type, text |-> e.text]

\* Python truth value of an ErrorMessage: None and "" are false.
Falsy(m) == m.kind = "None" \/ (m.kind = "str" /\ m.text = <<>>)

\* ScreenshotBase64 values: None, or the encoding of the n-th capture.
NoShot == [set |-> FALSE, shot |-> 0]
B64(n) == [set |-> TRUE, shot |-> n]

InitialResultFailed ==
    [Status |-> "failed", ErrorMessage |-> NoneMsg, ErrorStack |-> FALSE,
     ScreenshotBase64 |-> NoShot, ScreenshotMissing |-> TRUE, DurationMs |-> 0]
InitialResult ==
    [Status |-> "passed", ErrorMessage |-> NoneMsg, ErrorStack |-> FALSE,
     ScreenshotBase64 |-> NoShot, ScreenshotMissing |-> TRUE, DurationMs |-> 0]

\* ------------------------------------------------------ selector normalizer
\* _normalize_selector: None is modelled as <<"None">>, which no selector of
\* the recordings explored normalizes to; the empty string <<>> is a possible
\* result ("css/").
NoSelector == <<"None">>
NormalizeSelector(raw) ==
    IF raw = <<>> THEN raw
    ELSE IF Head(raw) = "aria/" THEN NoSelector
    ELSE IF Head(raw) = "xpath/" THEN <<"xpath=">> \o Tail(raw)
    ELSE IF Head(raw) = "pierce/" THEN NoSelector
    ELSE IF Head(raw) = "text/" THEN <<"text=">> \o Tail(raw)
    ELSE IF Head(raw) = "css/" THEN Tail(raw)
    ELSE IF Head(raw) = "testid/" THEN <<"[data-testid='">> \o Tail(raw) \o <<"']">>
    ELSE raw

\* "if not selector": None and "" are skipped.
Unsupported(sel) == sel = NoSelector \/ sel = <<>>

\* The two nested loops of _try_selectors visit the raw selectors in this
\* order: <<group index, index in group, raw selector>>.
RECURSIVE FlatFrom(_, _, _)
FlatFrom(groups, g, s) ==
    IF g > Len(groups) THEN <<>>
    ELSE IF s > Len(groups[g]) THEN FlatFrom(groups, g + 1, 1)
    ELSE << <<g, s, groups[g][s]>> >> \o FlatFrom(groups, g, s + 1)
FlatSelectors(groups) == FlatFrom(groups, 1, 1)


\* ------------------------------------------------------------------- state
VARIABLES
    recording,      \* recording["steps"]
    pc,             \* position of the run_test coroutine
    i,              \* loop variable of the step loop (0-based)
    result,         \* the result dict
    page,           \* the page variable
    closed,         \* pages for which is_closed() is true
    current_frame,  \* current_frame
    popup_pages,    \* popup_pages
    frames,         \* len(frames) read in this iteration of the loop, 0: not read
    ev,             \* position of "for event in events" (1-based), 0: not in the loop
    pending,        \* the exception in flight (step_error, e)
    attempt,        \* loop variable of _try_selectors_with_retries
    k,              \* position of _try_selectors in FlatSelectors
    count,          \* count of base_locator
    c,              \* loop variable of the candidate loop
    \* history, read by the properties only
    acted,          \* <<k, c>> on which action() was called in this attempt
    actionable,     \* <<k, c>> found attached and visible in this attempt
    tries,          \* _try_selectors calls of the current wrapper call
    waits,          \* wait_for_timeout calls of the current wrapper call
    wrapper,        \* how the last wrapper call ended
    unexamined,     \* <<k, c>> never examined: wait_for raised on an earlier match of selector k
    missed,         \* those of unexamined that are attached and visible
    asserted,       \* events of this step that were evaluated against the page
    passedOver,     \* events of a known kind, not evaluated, whose condition does not hold
    stability,      \* the call of _wait_for_dom_stability that raised in this step, 0: none
    executed,       \* steps (1-based) whose try block was entered
    calls,          \* <<step, driver operation>> invoked by the dispatcher branches and the post-step log
    shots,          \* failure-evidence screenshot captures attempted
    stepShot,       \* what the step-level handler's capture did
    failedStep,     \* the step (1-based) whose handler ran, 0: none
    stepError,      \* the exception that step raised
    startupFailed,  \* an exception was raised before the step loop
    teardownFailed, \* browser.close() or the driver's exit raised
    cancelled,      \* the task was cancelled
    returned,       \* results returned to the caller
    escaped,        \* an exception reached the caller
    \* api.py: the tasks created by /run-test and the files they write
    request,        \* the body of the /run-test request: its steps and "parallel"
    tpc,            \* position of each run_test task
    ti,             \* loop variable i of each task
    tstatus,        \* result["Status"] of each task
    files,          \* the files of the working directory, by path
    \* api.py: the queue and its worker
    queue,          \* queue: the items waiting, oldest first
    current_test,   \* current_test
    data,           \* data of the worker
    wpc,            \* position of the worker coroutine
    wpending,       \* the exception in flight in the worker
    \* history, read by the properties only
    put,            \* every item put on the queue, in the order put
    finished,       \* the items whose finally block ran, in that order
    task_done,      \* calls of queue.task_done()
    wraised         \* <<item number, call>> of the calls that raised in the worker

runVars == <<recording, pc, i, result, page, closed, current_frame, popup_pages,
          frames, ev, asserted, passedOver, stability, pending, attempt, k, count, c,
          acted, actionable, tries, waits, wrapper, unexamined, missed, executed,
          calls, shots, stepShot, failedStep, stepError, startupFailed,
          teardownFailed, cancelled, returned, escaped>>

retryVars == <<attempt, k, count, c, acted, actionable, tries, waits,
               wrapper, unexamined, missed>>
ctxVars == <<current_frame, popup_pages, frames>>
assertVars == <<ev, asserted, passedOver>>
handlerVars == <<shots, stepShot, failedStep, stepError>>
endVars == <<startupFailed, teardownFailed, cancelled, returned, escaped>>
parVars == <<request, tpc, ti, tstatus, files>>
queueVars == <<queue, current_test, data, wpc, wpending, put, finished,
               task_done, wraised>>
apiVars == <<parVars, queueVars>>
vars == <<runVars, apiVars>>

\* No request received, no task, no file written.
NoRequest == [steps |-> <<>>, parallel |-> 0]
NoFile == <<>>
NoTasks ==
    /\ request = NoRequest
    /\ tpc = <<>> /\ ti = <<>> /\ tstatus = <<>>
    /\ files = [path \in {} |-> NoFile]
\* current_test values: None, or the dict the worker builds from an item.
None == [none |-> TRUE, TestName |-> "", TestRunId |-> ""]
CurrentTest(d) == [none |-> FALSE, TestName |-> d.TestName, TestRunId |-> d.TestRunId]

\* A queue item as the worker reads it: data.get("TestName", "") and
\* data.get("TestRunId", "").  The second item has neither key.
Item(name, id) == [TestName |-> name, TestRunId |-> id]
ItemPool == { Item("login", "r1"), Item("", "") }
\* data before the first queue.get() has returned.
NoData == Item("", "")

\* The module is imported and the worker task waits in queue.get().
QueueInit ==
    /\ queue = <<>>
    /\ current_test = None
    /\ data = NoData
    /\ wpc = "get"
    /\ wpending = NoExc
    /\ put = <<>> /\ finished = <<>> /\ task_done = 0 /\ wraised = {}
ApiInit == NoTasks /\ QueueInit

N == Len(recording)
step == recording[i + 1]

Init ==
    /\ recording \in Recordings
    /\ pc = "idle"
    /\ i = 0
    /\ result = InitialResult
    /\ page = NoPage
    /\ closed = {}
    /\ current_frame = MainFrame(NoPage) /\ popup_pages = <<>> /\ frames = 0
    /\ ev = 0 /\ asserted = {} /\ passedOver = {}
    /\ stability = 0
    /\ pending = NoExc
    /\ attempt = 0 /\ k = 1 /\ count = 0 /\ c = 0
    /\ acted = {} /\ actionable = {}
    /\ tries = 0 /\ waits = 0 /\ wrapper = "none"
    /\ unexamined = {} /\ missed = {}
    /\ executed = {} /\ calls = {}
    /\ shots = 0 /\ stepShot = "none" /\ failedStep = 0 /\ stepError = NoExc
    /\ startupFailed = FALSE /\ teardownFailed = FALSE /\ cancelled = FALSE
    /\ returned = 0 /\ escaped = FALSE
    /\ ApiInit

\* ------------------------------------------------------ session startup
\* async_playwright().__aenter__, chromium.launch, new_context, new_page: any
\* of them may raise; page is assigned only when all four succeeded.  A
\* failure of __aenter__ leaves no context manager to exit.
Launch ==
    /\ pc = "idle"
    /\ UNCHANGED apiVars
    /\ UNCHANGED stability
    /\ UNCHANGED assertVars
    /\ \E failing \in {"none", "start", "launch", "new_context", "new_page"} :
          IF failing = "none"
          THEN /\ page' = MainPage
               /\ current_frame' = MainFrame(MainPage)
               /\ pc' = "loop"
               /\ UNCHANGED <<pending, startupFailed>>
          ELSE /\ pending' = DriverError(failing)
               /\ startupFailed' = TRUE
               /\ pc' = IF failing = "start" THEN "outer" ELSE "exit"
               /\ UNCHANGED <<page, current_frame>>
    /\ UNCHANGED <<popup_pages, frames>>
    /\ UNCHANGED <<recording, i, result, closed, retryVars, executed, calls,
                   handlerVars, teardownFailed, cancelled, returned, escaped>>

\* ------------------------------------------------------------- step loop
\* for i, step in enumerate(...): the frame of a step with a "frame" key is
\* looked up in page.frames and the step is passed over ("continue") when
\* there is none; otherwise the step enters its try block.  After the last
\* step browser.close() is next.
BeginStep ==
    /\ pc = "loop"
    /\ UNCHANGED apiVars
    /\ UNCHANGED stability
    /\ UNCHANGED assertVars
    /\ IF i >= N
       THEN /\ pc' = "close"
            /\ frames' = 0
            /\ UNCHANGED <<i, executed, current_frame>>
       ELSE IF ~step.hasFrame
       THEN /\ pc' = "dispatch"
            /\ executed' = executed \cup {i + 1}
            /\ frames' = 0
            /\ current_frame' = FrameWithoutPath(current_frame, page)
            /\ UNCHANGED i
       ELSE \E n \in 1..MaxFrames :
               /\ frames' = n
               /\ IF FrameLookup(step.frame, n) = InvalidFrame
                  THEN /\ i' = i + 1
                       /\ pc' = "loop"
                       /\ UNCHANGED <<executed, current_frame>>
                  ELSE /\ current_frame' = <<page, FrameLookup(step.frame, n)>>
                       /\ pc' = "dispatch"
                       /\ executed' = executed \cup {i + 1}
                       /\ UNCHANGED i
    /\ UNCHANGED <<recording, result, page, closed, popup_pages, pending,
                   retryVars, calls, handlerVars, endVars>>

\* The locals of the retry wrapper and of _try_selectors, and what is
\* remembered of them, once the call is over.
ResetRetry ==
    /\ attempt' = 0 /\ k' = 1 /\ count' = 0 /\ c' = 0
    /\ acted' = {} /\ actionable' = {}
    /\ tries' = 0 /\ waits' = 0 /\ wrapper' = "none"
    /\ unexamined' = {} /\ missed' = {}

\* The loop over the events of an assert step is over.
ResetAssert ==
    /\ ev' = 0 /\ asserted' = {} /\ passedOver' = {}

\* A step raises: control is at the step-level handler with step_error.
Raise(e) ==
    /\ pending' = e
    /\ pc' = "stepfail"

Called(op) == calls' = calls \cup {<<i + 1, op>>}


\* ------------------------------------------------------------ the dispatcher
\* url.startswith("edge://") or url.startswith("chrome://") or url.startswith("about:")
PrivilegedEdgeOnly(url) ==
    /\ url # <<>>
    /\ Head(url) = "edge://"
Privileged(url) ==
    /\ url # <<>>
    /\ Head(url) \in {"edge://", "chrome://", "about:"}

\* _wait_for_dom_stability: four driver calls in one try; whichever raises
\* (0: none) is logged and the function returns.  The value is the exception
\* that leaves the function.
StabilityCalls == 4
WaitForDomStabilityUncaught(raising) ==
    IF raising = 0 THEN NoExc ELSE DriverError("stability")
WaitForDomStability(raising) == NoExc

\* The step types the if/elif chain of the try block knows.
KnownTypes ==
    {"navigate", "switchToPopup", "switchToMain", "click", "doubleClick",
     "rightClick", "type", "press", "dragAndDrop", "change", "hover",
     "waitForSelector", "keyDown", "keyUp", "setViewport", "scroll",
     "waitForTimeout", "screenshot", "close", "assert"}

dispatchUnchanged ==
    UNCHANGED <<recording, i, result, page, retryVars, executed, handlerVars,
                endVars>>

\* navigate: a privileged URL raises before page.goto; otherwise goto, then
\* the stability waiter.
StepNavigate ==
    /\ pc = "dispatch"
    /\ UNCHANGED apiVars
    /\ UNCHANGED assertVars
    /\ UNCHANGED ctxVars
    /\ step.type = "navigate"
    /\ IF Privileged(step.url)
       THEN /\ Raise(Exc(<<"Ogiltig eller osupportad URL: ">> \o step.url))
            /\ UNCHANGED <<calls, stability>>
       ELSE /\ Called("goto")
            /\ \/ Raise(DriverError("goto")) /\ UNCHANGED stability
               \/ \E raising \in 0..StabilityCalls :
                     /\ stability' = raising
                     /\ IF WaitForDomStability(raising) = NoExc
                        THEN pc' = "post" /\ UNCHANGED pending
                        ELSE Raise(WaitForDomStability(raising))
    /\ UNCHANGED closed
    /\ dispatchUnchanged

\* keyDown, keyUp: the stability waiter, wait_for_timeout(500), the keyboard
\* call and wait_for_timeout(300); failing is the call that raises after the
\* waiter (none: all return).
KeyOp(type) == IF type = "keyDown" THEN "keyboard.down" ELSE "keyboard.up"
StepKey ==
    /\ pc = "dispatch"
    /\ UNCHANGED apiVars
    /\ UNCHANGED assertVars
    /\ UNCHANGED ctxVars
    /\ step.type \in {"keyDown", "keyUp"}
    /\ \E raising \in 0..StabilityCalls :
          /\ stability' = raising
          /\ IF WaitForDomStability(raising) # NoExc
             THEN Raise(WaitForDomStability(raising)) /\ UNCHANGED calls
             ELSE \E failing \in {"none", "before", "key", "after"} :
                     /\ IF failing = "before" THEN UNCHANGED calls
                                              ELSE Called(KeyOp(step.type))
                     /\ IF failing = "none" THEN pc' = "post" /\ UNCHANGED pending
                        ELSE IF failing = "key" THEN Raise(DriverError(KeyOp(step.type)))
                        ELSE Raise(DriverError("wait_for_timeout"))
    /\ UNCHANGED closed
    /\ dispatchUnchanged

\* type: one keyboard call.
StepType ==
    /\ pc = "dispatch"
    /\ UNCHANGED apiVars
    /\ UNCHANGED stability
    /\ UNCHANGED assertVars
    /\ UNCHANGED ctxVars
    /\ step.type = "type"
    /\ Called("keyboard.type")
    /\ \/ pc' = "post" /\ UNCHANGED pending
       \/ Raise(DriverError("keyboard.type"))
    /\ UNCHANGED closed
    /\ dispatchUnchanged

\* close: page.close().
StepClose ==
    /\ pc = "dispatch"
    /\ UNCHANGED apiVars
    /\ UNCHANGED stability
    /\ UNCHANGED assertVars
    /\ UNCHANGED ctxVars
    /\ step.type = "close"
    /\ Called("close")
    /\ \/ /\ closed' = closed \cup {page}
          /\ pc' = "post"
          /\ UNCHANGED pending
       \/ /\ Raise(DriverError("close"))
          /\ UNCHANGED closed
    /\ dispatchUnchanged

\* context.on("page", ...): the context opens a page while the post-step
\* call is awaited, and the callback appends it to popup_pages.  The pages
\* opened are read by switchToPopup and switchToMain only, so those opened
\* when no such step is still to come are left out.
PopupOpens ==
    /\ pc = "post"
    /\ UNCHANGED apiVars
    /\ UNCHANGED stability
    /\ UNCHANGED assertVars
    /\ Len(popup_pages) < MaxPopups
    /\ \E n \in (i + 2)..N : recording[n].type \in {"switchToPopup", "switchToMain"}
    /\ popup_pages' = Append(popup_pages, Popup(Len(popup_pages) + 1))
    /\ UNCHANGED <<recording, pc, i, result, page, closed, current_frame, frames,
                   pending, retryVars, executed, calls, handlerVars, endVars>>

\* switchToPopup: the last page of popup_pages and its main frame, or the
\* step raises.
StepSwitchToPopup ==
    /\ pc = "dispatch"
    /\ UNCHANGED apiVars
    /\ UNCHANGED stability
    /\ UNCHANGED assertVars
    /\ step.type = "switchToPopup"
    /\ IF popup_pages # <<>>
       THEN /\ page' = PopupTarget(popup_pages)
            /\ current_frame' = MainFrame(page')
            /\ pc' = "post"
            /\ UNCHANGED pending
       ELSE /\ Raise(Exc(<<"Inget popup-fönster hittades">>))
            /\ UNCHANGED <<page, current_frame>>
    /\ UNCHANGED <<recording, i, result, closed, popup_pages, frames, retryVars,
                   executed, calls, handlerVars, endVars>>

\* context.pages: the pages of the context that are open, in the order they
\* were opened.
ContextPages ==
    LET Open(p) == p \notin closed
    IN  SelectSeq(<<MainPage>> \o popup_pages, Open)

\* switchToMain: context.pages[0] and its main frame; with no page open the
\* index raises IndexError.
StepSwitchToMain ==
    /\ pc = "dispatch"
    /\ UNCHANGED apiVars
    /\ UNCHANGED stability
    /\ UNCHANGED assertVars
    /\ step.type = "switchToMain"
    /\ IF ContextPages # <<>>
       THEN /\ page' = ContextPages[1]
            /\ current_frame' = MainFrame(page')
            /\ pc' = "post"
            /\ UNCHANGED pending
       ELSE /\ Raise(Exc(<<"list index out of range">>))
            /\ UNCHANGED <<page, current_frame>>
    /\ UNCHANGED <<recording, i, result, closed, popup_pages, frames, retryVars,
                   executed, calls, handlerVars, endVars>>

\* The kinds of event _handle_assert_event evaluates on a selector.
SelectorKinds ==
    {"elementAppears", "textContent", "elementVisible", "elementHidden",
     "attributeValue"}

\* The branch of _handle_assert_event an event takes: "navigation", the
\* branch of its kind ("... and selector"), or the else branch.
AssertBranch(e) ==
    IF e.type = "navigation" THEN "navigation"
    ELSE IF e.type \in SelectorKinds /\ ~Unsupported(NormalizeSelector(e.selector))
    THEN e.type
    ELSE "else"

\* assert: the loop over assertedEvents starts.
StepAssert ==
    /\ pc = "dispatch"
    /\ UNCHANGED apiVars
    /\ UNCHANGED stability
    /\ step.type = "assert"
    /\ UNCHANGED ctxVars
    /\ IF step.assertedEvents = <<>>
       THEN pc' = "post" /\ UNCHANGED ev
       ELSE pc' = "assert" /\ ev' = 1
    /\ UNCHANGED <<asserted, passedOver, pending, closed, calls>>
    /\ dispatchUnchanged

\* _handle_assert_event for the event at ev: the branch taken evaluates the
\* event against the page and returns or raises (a driver failure or an
\* AssertionError); the else branch only logs, whether or not what the
\* event expects holds on the page.
AssertEvent ==
    /\ pc = "assert"
    /\ UNCHANGED apiVars
    /\ UNCHANGED stability
    /\ UNCHANGED ctxVars
    /\ LET e == step.assertedEvents[ev]
           next == /\ pc' = IF ev < Len(step.assertedEvents) THEN "assert" ELSE "post"
                   /\ ev' = IF ev < Len(step.assertedEvents) THEN ev + 1 ELSE 0
                   /\ UNCHANGED pending
       IN  IF AssertBranch(e) # "else"
           THEN /\ asserted' = asserted \cup {ev}
                /\ UNCHANGED passedOver
                /\ \/ next
                   \/ Raise(Exc(<<"assert:", e.type>>)) /\ UNCHANGED ev
           ELSE /\ UNCHANGED asserted
                /\ \/ UNCHANGED passedOver
                   \/ /\ e.type \in SelectorKinds
                      /\ passedOver' = passedOver \cup {ev}
                /\ next
    /\ UNCHANGED <<closed, calls>>
    /\ dispatchUnchanged

\* else: logger.warning only.
StepUnknown ==
    /\ pc = "dispatch"
    /\ UNCHANGED apiVars
    /\ UNCHANGED stability
    /\ UNCHANGED assertVars
    /\ UNCHANGED ctxVars
    /\ step.type \notin KnownTypes
    /\ pc' = "post"
    /\ UNCHANGED <<pending, closed, calls>>
    /\ dispatchUnchanged

\* logger.debug(... page.url ... await page.title()) after the if/elif chain,
\* still inside the try block.
PostStep ==
    /\ pc = "post"
    /\ UNCHANGED apiVars
    /\ stability' = 0
    /\ ResetAssert
    /\ UNCHANGED ctxVars
    /\ Called("title")
    /\ \/ /\ i' = i + 1
          /\ pc' = "loop"
          /\ UNCHANGED pending
       \/ /\ Raise(DriverError("title"))
          /\ UNCHANGED i
    /\ ResetRetry
    /\ UNCHANGED <<recording, result, page, closed, executed, handlerVars,
                   endVars>>


\* -------------------------------------------------------- the retry wrapper
InteractiveTypes ==
    {"click", "doubleClick", "rightClick", "change", "hover", "waitForSelector"}

Flat == FlatSelectors(step.selectors)

\* raise Exception("Inget selektoralternativ fungerade efter flera försök")
ExhaustionError == Exc(<<"Inget selektoralternativ fungerade efter flera försök">>)

\* for attempt in range(max_retries): is there an attempt numbered a?
InRangeOffByOne(a) == a < MaxRetries - 1
InRange(a) == a < MaxRetries

\* A call of _try_selectors starts: at the first selector, or, with nothing
\* to visit, at its final raise, which the wrapper catches.
StartAttempt ==
    /\ k' = 1 /\ count' = 0 /\ c' = 0
    /\ acted' = {} /\ actionable' = {}
    /\ unexamined' = {} /\ missed' = {}
    /\ tries' = tries + 1
    /\ pc' = IF Len(Flat) = 0 THEN "wait" ELSE "try"

\* click, change, hover, ...: _try_selectors_with_retries(step, current_frame, action)
StepInteractive ==
    /\ pc = "dispatch"
    /\ UNCHANGED apiVars
    /\ UNCHANGED stability
    /\ UNCHANGED assertVars
    /\ UNCHANGED ctxVars
    /\ step.type \in InteractiveTypes
    /\ attempt' = 0
    /\ tries' = 1 /\ waits' = 0 /\ wrapper' = "running"
    /\ k' = 1 /\ count' = 0 /\ c' = 0
    /\ acted' = {} /\ actionable' = {}
    /\ unexamined' = {} /\ missed' = {}
    /\ pc' = IF Len(Flat) = 0 THEN "wait" ELSE "try"
    /\ UNCHANGED <<recording, i, result, page, closed, pending, executed,
                   calls, handlerVars, endVars>>

\* The selector at position k is done without a return: the next one, or the
\* final "Ingen fungerande selector hittades", caught by the wrapper.
NextSelector ==
    /\ k' = k + 1
    /\ count' = 0 /\ c' = 0
    /\ pc' = IF k + 1 > Len(Flat) THEN "wait" ELSE "try"

tryUnchanged ==
    UNCHANGED <<recording, i, result, page, closed, pending, attempt, tries,
                waits, executed, handlerVars, endVars>>

\* One selector of _try_selectors: normalize, skip if unsupported, count().
\* count() raising (-1) and count() = 0 both go on to the next selector.
TrySelector ==
    /\ pc = "try"
    /\ UNCHANGED apiVars
    /\ UNCHANGED stability
    /\ UNCHANGED assertVars
    /\ UNCHANGED ctxVars
    /\ IF Unsupported(NormalizeSelector(Flat[k][3]))
       THEN NextSelector
       ELSE \E n \in -1..MaxCands :
               IF n <= 0
               THEN NextSelector
               ELSE /\ count' = n
                    /\ c' = 0
                    /\ pc' = "cand"
                    /\ UNCHANGED k
    /\ unexamined' = {} /\ missed' = {}
    /\ UNCHANGED <<acted, actionable, wrapper, calls>>
    /\ tryUnchanged

\* What the driver does with one candidate: wait_for(attached) raises; or it
\* is attached and is_visible() is false; or it is visible and
\* scroll_into_view_if_needed raises; or the action raises; or all succeed.
\* When wait_for raises, the except clause around the whole candidate loop
\* takes it: the later matches of the selector are not examined, whatever
\* their state on the page (missed: those attached and visible).
CandidateOutcomes == {"detached", "hidden", "scrollfail", "actfail", "ok"}

\* One candidate of the inner loop of _try_selectors.
TryCandidate ==
    /\ pc = "cand"
    /\ UNCHANGED apiVars
    /\ UNCHANGED stability
    /\ UNCHANGED assertVars
    /\ UNCHANGED ctxVars
    /\ \E o \in CandidateOutcomes :
          /\ actionable' = IF o \in {"scrollfail", "actfail", "ok"}
                           THEN actionable \cup {<<k, c>>} ELSE actionable
          /\ acted' = IF o \in {"actfail", "ok"}
                      THEN acted \cup {<<k, c>>} ELSE acted
          /\ unexamined' = IF o = "detached"
                           THEN {<<k, d>> : d \in (c + 1)..(count - 1)} ELSE {}
          /\ missed' \in SUBSET unexamined'
          /\ CASE o = "ok" ->
                    /\ wrapper' = "ok"
                    /\ pc' = IF step.type = "click" THEN "settle" ELSE "post"
                    /\ k' = 1 /\ count' = 0 /\ c' = 0
               [] o = "hidden" /\ c + 1 < count ->
                    /\ c' = c + 1
                    /\ UNCHANGED <<k, count, pc, wrapper>>
               [] OTHER ->
                    /\ NextSelector
                    /\ UNCHANGED wrapper
    /\ UNCHANGED calls
    /\ tryUnchanged

\* The wrapper raises: the locals of the last _try_selectors call, and what
\* is remembered of that attempt, are gone.
AttemptOver ==
    /\ k' = 1 /\ count' = 0 /\ c' = 0
    /\ acted' = {} /\ actionable' = {}
    /\ unexamined' = {} /\ missed' = {}

\* except Exception in the wrapper: frame.wait_for_timeout(delay_ms), then the
\* next attempt, or the raise after the loop.
RetryWait ==
    /\ pc = "wait"
    /\ UNCHANGED apiVars
    /\ UNCHANGED stability
    /\ UNCHANGED assertVars
    /\ UNCHANGED ctxVars
    /\ waits' = waits + 1
    /\ \/ /\ attempt' = attempt + 1
          /\ IF InRange(attempt + 1)
             THEN /\ StartAttempt
                  /\ UNCHANGED <<pending, wrapper>>
             ELSE /\ Raise(ExhaustionError)
                  /\ wrapper' = "exhausted"
                  /\ AttemptOver
                  /\ UNCHANGED tries
       \/ /\ Raise(DriverError("wait_for_timeout"))
          /\ wrapper' = "waitraised"
          /\ AttemptOver
          /\ UNCHANGED <<attempt, tries>>
    /\ UNCHANGED <<recording, i, result, page, closed, executed, calls,
                   handlerVars, endVars>>

\* click only: page.wait_for_timeout(300) after the wrapper returned.
ClickSettle ==
    /\ pc = "settle"
    /\ UNCHANGED apiVars
    /\ UNCHANGED stability
    /\ UNCHANGED assertVars
    /\ UNCHANGED ctxVars
    /\ \/ pc' = "post" /\ UNCHANGED pending
       \/ Raise(DriverError("settle"))
    /\ ResetRetry
    /\ UNCHANGED <<recording, i, result, page, closed, executed, calls,
                   handlerVars, endVars>>


\* ------------------------------------------------------- failure evidence
\* if page and not page.is_closed(): page.screenshot() is called and either
\* returns or raises; otherwise no capture is attempted.
CaptureOutcomes ==
    IF page # NoPage /\ page \notin closed THEN {"ok", "raised"} ELSE {"skipped"}

\* The result after the try/except around the capture; n numbers the capture.
EvidenceAfter(r, o, n) ==
    IF o = "ok"
    THEN [r EXCEPT !.ScreenshotBase64 = B64(n), !.ScreenshotMissing = FALSE]
    ELSE [r EXCEPT !.ScreenshotMissing = TRUE]

\* except Exception as step_error: the step-level handler, ending in
\* "raise step_error".
StepFail ==
    /\ pc = "stepfail"
    /\ UNCHANGED apiVars
    /\ stability' = 0
    /\ ResetAssert
    /\ UNCHANGED ctxVars
    /\ \E o \in CaptureOutcomes :
          /\ result' = EvidenceAfter(
                          [result EXCEPT !.Status = "failed",
                                         !.ErrorMessage = StepMessage(i, N, step.type, pending),
                                         !.ErrorStack = TRUE],
                          o, shots + 1)
          /\ shots' = IF o = "skipped" THEN shots ELSE shots + 1
          /\ stepShot' = o
    /\ failedStep' = i + 1
    /\ stepError' = pending
    /\ pc' = "exit"
    /\ ResetRetry
    /\ UNCHANGED <<recording, i, page, closed, pending, executed, calls, endVars>>

\* await browser.close() after the loop.
BrowserClose ==
    /\ pc = "close"
    /\ UNCHANGED apiVars
    /\ UNCHANGED stability
    /\ UNCHANGED assertVars
    /\ UNCHANGED ctxVars
    /\ \/ UNCHANGED <<pending, teardownFailed>>
       \/ /\ pending' = DriverError("browser.close")
          /\ teardownFailed' = TRUE
    /\ pc' = "exit"
    /\ UNCHANGED <<recording, i, result, page, closed, retryVars, executed,
                   calls, handlerVars, startupFailed, cancelled, returned,
                   escaped>>

\* except Exception as e: does the outer handler take the exception?
Catches(e) == e.cls = "Exception"

\* Where control goes when the "async with" block has been left with e in
\* flight: the outer handler, or straight to the finally clause.
AfterSessionAlways(e) == "outer"
AfterSession(e) == IF Catches(e) THEN "outer" ELSE "finally"

\* __aexit__ of async_playwright(): the driver is stopped, which may raise
\* and then replaces the exception in flight.
Exit ==
    /\ pc = "exit"
    /\ UNCHANGED apiVars
    /\ UNCHANGED stability
    /\ UNCHANGED assertVars
    /\ UNCHANGED ctxVars
    /\ \/ UNCHANGED <<pending, teardownFailed>>
       \/ /\ pending' = DriverError("stop")
          /\ teardownFailed' = TRUE
    /\ pc' = AfterSession(pending')
    /\ UNCHANGED <<recording, i, result, page, closed, retryVars, executed,
                   calls, handlerVars, startupFailed, cancelled, returned,
                   escaped>>

\* if not result["ErrorMessage"]: result["ErrorMessage"] = str(e)
OuterErrorMessageOverwrite(old, e) == StrMsg(e)
OuterErrorMessage(old, e) == IF Falsy(old) THEN StrMsg(e) ELSE old

\* except Exception as e: the whole-playback handler.
Outer ==
    /\ pc = "outer"
    /\ UNCHANGED apiVars
    /\ UNCHANGED stability
    /\ UNCHANGED assertVars
    /\ UNCHANGED ctxVars
    /\ \E o \in CaptureOutcomes :
          /\ result' = EvidenceAfter(
                          [result EXCEPT !.Status = "failed",
                                         !.ErrorMessage = OuterErrorMessage(@, pending),
                                         !.ErrorStack = TRUE],
                          o, shots + 1)
          /\ shots' = IF o = "skipped" THEN shots ELSE shots + 1
    /\ pending' = NoExc
    /\ pc' = "finally"
    /\ UNCHANGED <<recording, i, page, closed, retryVars, executed, calls,
                   stepShot, failedStep, stepError, endVars>>

\* start = time.time(): the origin of the clock readings.  The clock is
\* taken not to be set back during a run.
StartTime == 0
\* int((time.time() - start) * 1000), readings in ms.
ElapsedReversed(t0, t1) == t0 - t1
Elapsed(t0, t1) == t1 - t0

\* "return result" inside finally: the exception in flight, if any, is
\* discarded.  The value is the exception that leaves run_test.
AfterFinallyNoReturn(e) == e
AfterFinally(e) == NoExc

\* finally: DurationMs, then return.
Finally ==
    /\ pc = "finally"
    /\ UNCHANGED apiVars
    /\ UNCHANGED stability
    /\ UNCHANGED assertVars
    /\ UNCHANGED ctxVars
    /\ \E now \in StartTime..(StartTime + MaxElapsed) :
          result' = [result EXCEPT !.DurationMs = Elapsed(StartTime, now)]
    /\ pending' = AfterFinally(pending)
    /\ escaped' = (pending' # NoExc)
    /\ returned' = IF pending' # NoExc THEN returned ELSE returned + 1
    /\ pc' = "done"
    /\ UNCHANGED <<recording, i, page, closed, retryVars, executed, calls,
                   handlerVars, startupFailed, teardownFailed, cancelled>>

\* The task is cancelled while an await of a step is pending: CancelledError
\* is no Exception, so neither handler takes it.
Cancel ==
    /\ pc \in {"try", "cand", "wait", "settle", "assert", "post"}
    /\ UNCHANGED apiVars
    /\ stability' = 0
    /\ ResetAssert
    /\ UNCHANGED ctxVars
    /\ pending' = Cancelled
    /\ cancelled' = TRUE
    /\ pc' = "exit"
    /\ ResetRetry
    /\ UNCHANGED <<recording, i, result, page, closed, executed, calls,
                   handlerVars, startupFailed, teardownFailed, returned,
                   escaped>>

\* ---------------------------------------------------------- specification
Next ==
    \/ Launch
    \/ BeginStep
    \/ StepNavigate
    \/ StepKey
    \/ StepType
    \/ StepClose
    \/ StepSwitchToPopup
    \/ StepSwitchToMain
    \/ StepAssert
    \/ AssertEvent
    \/ StepUnknown
    \/ StepInteractive
    \/ TrySelector
    \/ TryCandidate
    \/ RetryWait
    \/ ClickSettle
    \/ PostStep
    \/ PopupOpens
    \/ StepFail
    \/ BrowserClose
    \/ Exit
    \/ Outer
    \/ Finally
    \/ Cancel

Spec == Init /\ [][Next]_vars

\* Every await completes or raises, so the coroutine always takes its next step.
FairSpec == Spec /\ WF_vars(Next)


\* ------------------------------------------------- /run-test, parallel runs
\* The steps of a request, as far as they differ here: a screenshot step
\* writes a file, a step of another kind does not.
ParStepPool == {"screenshot", "foo"}
Requests ==
    { [steps |-> st, parallel |-> n] :
        st \in SeqsUpTo(ParStepPool, MaxSteps) \ { <<>> }, n \in 1..MaxParallel }

\* path=f"screenshot_{i}.png", i the zero-based index of the step.
ShotPath(idx) == <<"screenshot_", idx, ".png">>
\* What page.screenshot() of task t captures at the step of index idx: a view
\* of the page of t's own browser session.
Shot(t, idx) == <<"page of task", t, "at step", idx>>

\* run_test_endpoint: one task per "parallel", each on a copy of the body.
RunTestEndpoint ==
    /\ request = NoRequest
    /\ \E r \in Requests :
          /\ request' = r
          /\ tpc' = [t \in 1..r.parallel |-> "loop"]
          /\ ti' = [t \in 1..r.parallel |-> 0]
          /\ tstatus' = [t \in 1..r.parallel |-> "passed"]
    /\ UNCHANGED files
    /\ UNCHANGED <<runVars, queueVars>>

\* One step of task t: the step's driver call returns (a screenshot step has
\* written its file by then) or raises, which ends the loop of t.
TaskStep(t) ==
    /\ tpc[t] = "loop"
    /\ ti[t] < Len(request.steps)
    /\ \/ /\ ti' = [ti EXCEPT ![t] = @ + 1]
          /\ files' = IF request.steps[ti[t] + 1] = "screenshot"
                       THEN (ShotPath(ti[t]) :> Shot(t, ti[t])) @@ files
                       ELSE files
          /\ UNCHANGED <<tpc, tstatus>>
       \/ /\ tstatus' = [tstatus EXCEPT ![t] = "failed"]
          /\ tpc' = [tpc EXCEPT ![t] = "done"]
          /\ UNCHANGED <<ti, files>>
    /\ UNCHANGED request
    /\ UNCHANGED <<runVars, queueVars>>

\* The loop of task t is over: run_test returns its result.
TaskReturn(t) ==
    /\ tpc[t] = "loop"
    /\ ti[t] = Len(request.steps)
    /\ tpc' = [tpc EXCEPT ![t] = "done"]
    /\ UNCHANGED <<request, ti, tstatus, files>>
    /\ UNCHANGED <<runVars, queueVars>>

ParNext ==
    \/ RunTestEndpoint
    \/ \E t \in DOMAIN tpc : TaskStep(t)
    \/ \E t \in DOMAIN tpc : TaskReturn(t)

\* The server after startup: no recording is being played back by the
\* session modelled above, no request has arrived and the queue is empty.
ServerInit == Init /\ recording = <<>>

\* The tasks of one /run-test request; the playback modelled above is idle.
\* (The queue below is not used by /run-test.)
ParSpec == ServerInit /\ [][ParNext]_vars

TypeOK ==
    /\ pc \in {"idle", "loop", "dispatch", "try", "cand", "wait", "settle",
               "assert", "post", "stepfail", "close", "exit", "outer", "finally", "done"}
    /\ i \in 0..N
    /\ page \in {NoPage, MainPage} \cup {Popup(n) : n \in 1..MaxPopups}
    /\ current_frame[1] = page /\ current_frame[2] \in 0..(MaxFrames - 1)
    /\ Len(popup_pages) \in 0..MaxPopups
    /\ frames \in 0..MaxFrames
    /\ result.Status \in {"passed", "failed"}
    /\ attempt \in 0..MaxRetries
    /\ returned \in 0..1


\* --------------------------------------------------- the queue and its worker
\* An item is put on the queue.  api.py itself has no call of queue.put: the
\* items come from whoever holds the module's queue.
Put ==
    /\ Len(put) < MaxItems
    /\ \E d \in ItemPool :
          /\ queue' = Append(queue, d)
          /\ put' = Append(put, d)
    /\ UNCHANGED <<current_test, data, wpc, wpending, finished, task_done, wraised>>
    /\ UNCHANGED <<runVars, parVars>>

\* data = await queue.get(); current_test = {...}: no await lies between the
\* two, so they are one step.
WorkerGet ==
    /\ wpc = "get"
    /\ queue # <<>>
    /\ data' = Head(queue)
    /\ queue' = Tail(queue)
    /\ current_test' = CurrentTest(Head(queue))
    /\ wpc' = "run"
    /\ UNCHANGED <<wpending, put, finished, task_done, wraised>>
    /\ UNCHANGED <<runVars, parVars>>

\* A call awaited inside the try block returns, and the worker is at next,
\* or raises, and the worker is at its handlers.
WorkerCall(at, call, next) ==
    /\ wpc = at
    /\ \/ /\ wpc' = next
          /\ UNCHANGED <<wpending, wraised>>
       \/ /\ wpending' = DriverError(call)
          /\ wraised' = wraised \cup {<<Len(finished) + 1, call>>}
          /\ wpc' = "finally"
    /\ UNCHANGED <<queue, current_test, data, put, finished, task_done>>
    /\ UNCHANGED <<runVars, parVars>>

\* result = await run_test(data.get("Recording")); result.update(...)
WorkerRunTest == WorkerCall("run", "run_test", "token")
\* token = await get_token()
WorkerGetToken == WorkerCall("token", "get_token", "post")
\* await post_result(result, token)
WorkerPostResult == WorkerCall("post", "post_result", "finally")

\* except Exception as e: what is still in flight after the handler.
WorkerAfterTryNoHandler(e) == e
WorkerAfterTry(e) == IF e.cls = "Exception" THEN NoExc ELSE e

\* finally: current_test = None; queue.task_done().  With nothing in flight
\* the "while True" loop goes on; otherwise the exception ends the task.
WorkerFinally ==
    /\ wpc = "finally"
    /\ current_test' = None
    /\ task_done' = task_done + 1
    /\ finished' = Append(finished, data)
    /\ wpending' = NoExc
    /\ wpc' = IF WorkerAfterTry(wpending) = NoExc THEN "get" ELSE "dead"
    /\ UNCHANGED <<queue, data, put, wraised>>
    /\ UNCHANGED <<runVars, parVars>>

\* /queue-status: "isProcessing": current_test is not None
IsProcessing == ~current_test.none

QueueNext ==
    \/ Put
    \/ WorkerGet
    \/ WorkerRunTest
    \/ WorkerGetToken
    \/ WorkerPostResult
    \/ WorkerFinally

\* The queue and the one worker task start_worker creates; the playback
\* modelled above is idle.
QueueSpec == ServerInit /\ [][QueueNext]_vars


\* ============================================================== properties

\* Work left in one call of _try_selectors, and in the wrapper call.
AttemptCost == (Len(FlatSelectors(ClickSelectors)) + 1) * (MaxCands + 2) + 1
AttemptLeft ==
    CASE pc = "try" -> (Len(Flat) + 1 - k) * (MaxCands + 2) + 1
      [] pc = "cand" -> (Len(Flat) + 1 - k) * (MaxCands + 2) - c
      [] OTHER -> 0
StepCost == MaxRetries * AttemptCost + 10
\* A bound on the number of steps run_test still takes before it returns.
Rank ==
    (MaxPopups - Len(popup_pages)) +
    CASE pc = "done" -> 0
      [] pc = "finally" -> 1
      [] pc = "outer" -> 2
      [] pc = "exit" -> 3
      [] pc = "close" -> 4
      [] pc = "idle" -> 7 + (N + 1) * StepCost
      [] pc = "loop" -> 6 + (N - i) * StepCost
      [] pc = "dispatch" -> 5 + (N - i) * StepCost
      [] pc = "stepfail" -> 4
      [] pc = "post" -> 7 + (N - i - 1) * StepCost
      [] pc = "settle" -> 8 + (N - i - 1) * StepCost
      [] pc = "assert" -> 8 + (N - i - 1) * StepCost + Len(step.assertedEvents) - ev
      [] OTHER -> 9 + (N - i - 1) * StepCost
                    + (MaxRetries - attempt - 1) * AttemptCost + AttemptLeft

\* C1: whatever the driver does (startup, step, screenshot, teardown
\* failures), run_test ends by returning one result, and no exception ever
\* reaches its caller: nothing escapes, the coroutine can always take a next
\* step until it has returned, every step brings the return closer, and at
\* the return exactly one result has been handed over.
C1_AlwaysReturnsOneResult ==
    /\ [](/\ ~escaped
          /\ returned <= 1
          /\ (pc = "done" <=> returned = 1)
          /\ (pc # "done" => ENABLED Next)
          /\ Rank >= 0)
    /\ [][Rank' < Rank]_vars
\* A run that had a failing step, a failing capture and a failing teardown,
\* and returned.
C1_Witness ==
    /\ pc = "done" /\ returned = 1
    /\ failedStep # 0 /\ stepShot = "raised" /\ teardownFailed

\* C2: fail-fast.  Once step m has failed, no step after m has been entered,
\* Status is failed and ErrorMessage carries the 1-based number m.
C2_FailFast ==
    failedStep # 0 =>
        /\ \A n \in executed : n <= failedStep
        /\ result.Status = "failed"
        /\ result.ErrorMessage.kind = "step"
        /\ result.ErrorMessage.index = failedStep
\* Step 1 of 2 failed and the result was returned.
C2_Witness ==
    pc = "done" /\ returned = 1 /\ failedStep = 1 /\ N = 2

\* C3 as stated: with no failing step and no failure before the step loop,
\* the returned Status is passed.
C3_PassedUnlessStepOrStartupFails ==
    (pc = "done" /\ failedStep = 0 /\ ~startupFailed) => result.Status = "passed"
\* C3 as amended: Status is passed as long as no step has failed and neither
\* session startup nor teardown (browser.close(), the driver's exit) raised.
C3_PassedUnlessFailure ==
    (failedStep = 0 /\ ~startupFailed /\ ~teardownFailed) => result.Status = "passed"
\* All steps of a recording ran, teardown succeeded, and passed was returned.
C3_Witness ==
    /\ pc = "done" /\ returned = 1 /\ N = MaxSteps /\ i = N
    /\ failedStep = 0 /\ ~teardownFailed /\ result.Status = "passed"


\* The wrapper call of the current step has ended (returned or raised).
WrapperEnded == wrapper \in {"ok", "exhausted", "waitraised"}

\* C4 as stated: an attempt in which the locator is actionable is the
\* wrapper's last, after a wait for each failed attempt before it; if the
\* locator is actionable in none of the 10 attempts the wrapper makes exactly
\* 10 attempts and raises locator exhaustion.
C4_SucceedsWhenFirstActionable ==
    /\ (pc = "wait" /\ wrapper = "running") => actionable = {}
    /\ wrapper = "ok" => (tries <= MaxRetries /\ waits = tries - 1)
    /\ (WrapperEnded /\ wrapper # "ok") =>
          (wrapper = "exhausted" /\ tries = MaxRetries /\ pending = ExhaustionError)
\* C4 as amended: the wrapper returns at the first attempt whose action
\* completes, after one completed wait per failed attempt; if no attempt
\* succeeds and every wait completes, it makes exactly 10 attempts and 10
\* waits and raises locator exhaustion; a wait that raises ends the wrapper
\* at once with that error.
C4_RetryWrapper ==
    /\ wrapper = "running" =>
          tries = attempt + 1 /\ tries <= MaxRetries /\ waits \in {attempt, attempt + 1}
    /\ wrapper = "ok" =>
          /\ tries \in 1..MaxRetries /\ waits = tries - 1
          /\ acted # {}
    /\ wrapper = "exhausted" =>
          tries = MaxRetries /\ waits = MaxRetries /\ pending = ExhaustionError
    /\ wrapper = "waitraised" =>
          /\ tries \in 1..MaxRetries /\ waits = tries
          /\ pending = DriverError("wait_for_timeout")
\* The wrapper succeeded on its last permitted attempt.
C4_Witness ==
    wrapper = "ok" /\ tries = MaxRetries /\ waits = MaxRetries - 1

\* C5: when the capture of the step-level handler succeeded, the returned
\* result has ScreenshotBase64 set, ScreenshotMissing false, Status failed.
C5_StepScreenshotKept ==
    (pc = "done" /\ stepShot = "ok") =>
        /\ result.ScreenshotBase64.set
        /\ ~result.ScreenshotMissing
        /\ result.Status = "failed"

C7_FirstFailureWins ==
    failedStep # 0 =>
        result.ErrorMessage =
            StepMessage(failedStep - 1, N, recording[failedStep].type, stepError)
\* The outer handler ran with a different exception (the driver's exit
\* raised) after a step had failed.
C7_Witness ==
    pc = "done" /\ failedStep # 0 /\ teardownFailed /\ result.ErrorStack

\* C8: a step of an unrecognized kind is never the step a failure is
\* recorded for: playback goes on after it with Status unaffected.
C8_UnknownStepNeverFails ==
    \A n \in 1..N :
        recording[n].type \notin KnownTypes => failedStep # n

\* C9 as stated: with zero steps the returned result is passed, has
\* DurationMs >= 0 and ScreenshotMissing true.
C9_EmptyRecordingPasses ==
    (pc = "done" /\ N = 0) =>
        result.Status = "passed" /\ result.DurationMs >= 0 /\ result.ScreenshotMissing
\* C9 as amended: the same, for runs whose session startup and teardown
\* did not raise.
C9_EmptyRecording ==
    (pc = "done" /\ N = 0 /\ ~startupFailed /\ ~teardownFailed) =>
        result.Status = "passed" /\ result.DurationMs >= 0 /\ result.ScreenshotMissing
\* A run of the empty recording returned after a clean session.
C9_Witness ==
    /\ pc = "done" /\ returned = 1 /\ N = 0
    /\ ~startupFailed /\ ~teardownFailed /\ result.DurationMs = MaxElapsed

\* Order of the candidates visited by one attempt.
Precedes(x, y) == x[1] < y[1] \/ (x[1] = y[1] /\ x[2] < y[2])

\* C10: within one attempt the action is performed on the first actionable
\* match in selector order, and on no candidate after it.
C10_FirstActionableOnly ==
    \A a \in acted : \A b \in actionable : ~Precedes(b, a)


\* C11: of the matches of one selector, the action is performed on the
\* first one in document order that is attached and visible, and on no
\* other; no attached and visible match is left aside.
C11_FirstVisibleMatch ==
    /\ missed = {}
    /\ \A a \in acted : \A b \in actionable : b[1] = a[1] => b[2] >= a[2]

\* C19: a match that never attaches is skipped and the next match of the
\* same selector is examined: no match is left unexamined behind it.
C19_NextMatchExamined ==
    unexamined = {}

\* C20: once the action on an actionable element has raised, the attempt is
\* over: no further selector or candidate is tried in it.
C20_ActionFailureEndsAttempt ==
    (wrapper = "running" /\ acted # {}) => pc = "wait"


\* The schemes C12 names.
InternalSchemes == {"chrome://", "edge://", "about:"}
HasInternalScheme(url) == url # <<>> /\ Head(url) \in InternalSchemes
EndsWith(text, tail) ==
    /\ Len(text) >= Len(tail)
    /\ SubSeq(text, Len(text) - Len(tail) + 1, Len(text)) = tail

\* C12: a navigate step to a URL with an internal scheme never reaches
\* page.goto; it raises at once with the URL in the message, the step is the
\* failing step, Status is failed and ErrorMessage contains the URL.
C12_PrivilegedNavigateRejected ==
    \A n \in 1..N :
        (recording[n].type = "navigate" /\ HasInternalScheme(recording[n].url)) =>
            /\ <<n, "goto">> \notin calls
            /\ (n \in executed /\ pc # "dispatch") =>
                  IF pc = "stepfail"
                  THEN pending.cls = "Exception" /\ EndsWith(pending.text, recording[n].url)
                  ELSE /\ failedStep = n
                       /\ result.Status = "failed"
                       /\ result.ErrorMessage.kind = "step"
                       /\ EndsWith(result.ErrorMessage.text, recording[n].url)
\* A run whose second step navigates to chrome://settings has returned.
C12_Witness ==
    /\ pc = "done" /\ returned = 1 /\ N = 2 /\ failedStep = 2
    /\ recording[2].type = "navigate" /\ HasInternalScheme(recording[2].url)


\* An index that page.frames, of length n, does not have.
OutOfRange(path, n) == path # <<>> /\ (path[1] >= n \/ path[1] < -n)

\* C13: a step whose frame index is out of range for page.frames is passed
\* over: it does not enter its try block, the page, the frame, the result
\* and the exception in flight stay as they are, and the loop is at the next
\* step; a step that was passed over is never the failing step.
C13_InvalidFrameSkipsStep ==
    /\ [][(pc = "loop" /\ i < N /\ step.hasFrame /\ OutOfRange(step.frame, frames'))
            => /\ i' = i + 1 /\ pc' = "loop"
               /\ executed' = executed /\ calls' = calls
               /\ page' = page /\ current_frame' = current_frame
               /\ result' = result /\ pending' = pending]_vars
    /\ [](\A n \in 1..i : n \notin executed => failedStep # n /\ recording[n].hasFrame)
\* Step 1 was passed over for its frame index, step 2 ran, and the result
\* returned is passed.
C13_Witness ==
    /\ pc = "done" /\ returned = 1 /\ N = 2
    /\ recording[1].hasFrame /\ 1 \notin executed /\ 2 \in executed
    /\ result.Status = "passed"

\* C14: switchToPopup with a popup opened makes the most recently opened
\* popup the page and its main frame the frame; with none opened the step
\* raises, it is the failing step and the run ends failed.
C14_SwitchToPopup ==
    /\ [][(pc = "dispatch" /\ step.type = "switchToPopup")
            => IF popup_pages # <<>>
               THEN /\ page' = Popup(Len(popup_pages))
                    /\ current_frame' = <<page', 0>>
                    /\ pending' = NoExc
               ELSE /\ pc' = "stepfail" /\ pending' # NoExc
                    /\ page' = page /\ current_frame' = current_frame]_vars
    /\ [](\A n \in 1..N :
            (recording[n].type = "switchToPopup" /\ n \in executed
               /\ popup_pages = <<>> /\ pc \notin {"dispatch", "stepfail"})
            => failedStep = n /\ result.Status = "failed")
\* The second of two popups is the page after a switchToPopup step.
C14_Witness ==
    /\ N = 2 /\ i = 1 /\ pc = "post" /\ recording[2].type = "switchToPopup"
    /\ Len(popup_pages) = 2 /\ page = Popup(2)
\* A switchToPopup step with no popup opened failed, and the result is out.
C14_WitnessNoPopup ==
    /\ pc = "done" /\ returned = 1 /\ failedStep = 1
    /\ recording[1].type = "switchToPopup" /\ result.Status = "failed"


\* C15: one playback attempts at most one failure-evidence screenshot.
C15_OneEvidenceAttempt ==
    shots <= 1

\* C16: in a returned result ScreenshotMissing is true exactly when
\* ScreenshotBase64 is unset.
C16_MissingIffNoScreenshot ==
    pc = "done" => (result.ScreenshotMissing <=> ~result.ScreenshotBase64.set)

\* C17: a close step whose page.close() has returned is not the failing
\* step: the post-step log does not fail a step whose operation succeeded.
C17_CloseStepCompletes ==
    \A n \in 1..N :
        (recording[n].type = "close" /\ <<n, "title">> \in calls) => failedStep # n


\* C18: the events of an assert step are evaluated in the order listed, and
\* an event of a known kind whose expected condition does not hold raises,
\* whatever its selector: none is passed over.
C18_FirstMismatchRaises ==
    /\ passedOver = {}
    /\ pc = "assert" => \A a \in asserted : a < ev


\* C21: the page and the frame change only when the session starts, in a
\* step with a frame path (the frame only) and in a switchToPopup or
\* switchToMain step; in every other step, whether it completes or raises,
\* both stay as they are.
C21_ContextChangesOnlyInContextSteps ==
    [][/\ page' # page =>
            \/ pc = "idle"
            \/ pc = "dispatch" /\ step.type \in {"switchToPopup", "switchToMain"}
       /\ current_frame' # current_frame =>
            \/ pc = "idle"
            \/ pc = "loop" /\ i < N /\ step.hasFrame
            \/ pc = "dispatch" /\ step.type \in {"switchToPopup", "switchToMain"}]_vars
\* Step 1 selected frame 1 and step 2, a step of another kind without a frame
\* path, has run to its end or to its failure with frame 1 still active.
C21_Witness ==
    /\ N = 2 /\ recording[1].hasFrame /\ ~recording[2].hasFrame
    /\ recording[2].type \notin {"switchToPopup", "switchToMain"}
    /\ executed = {1, 2} /\ pc = "exit"
    /\ current_frame = <<MainPage, 1>>


\* C22: a wait of the stability waiter that times out or errors never fails
\* the step: a navigate step goes on to its end, and a keyDown or keyUp step
\* goes on to the calls after the waiter, which alone can fail it.
C22_StabilityWaiterNeverFails ==
    (stability # 0 /\ pc = "stepfail") =>
        /\ step.type \in {"keyDown", "keyUp"}
        /\ pending \in {DriverError("wait_for_timeout"), DriverError(KeyOp(step.type))}
\* The first wait of the stability waiter raised in a keyDown step, and the
\* step has made its keyboard call and is at its end.
C22_Witness ==
    /\ pc = "post" /\ step.type = "keyDown" /\ stability = 1
    /\ <<i + 1, "keyboard.down">> \in calls


\* C23: in any interleaving of the tasks of one request, the file a
\* screenshot step of a task has written holds what that task captured, as
\* it would had the task run alone.
C23_TasksShareNoState ==
    \A t \in DOMAIN tpc : \A idx \in 0..(ti[t] - 1) :
        request.steps[idx + 1] = "screenshot" =>
            files[ShotPath(idx)] = Shot(t, idx)


\* The positions of the worker between queue.get() and the end of finally.
Processing == wpc \in {"run", "token", "post", "finally"}

\* C24: the worker takes the items one at a time in the order they were put;
\* for every item taken, whatever raised, current_test is None again and
\* task_done was called once when its finally block is over; the worker
\* never ends; and isProcessing is true exactly while an item is processed.
C24_WorkerLoop ==
    /\ wpc # "dead"
    /\ IsProcessing <=> Processing
    /\ task_done = Len(finished)
    /\ put = finished \o (IF Processing THEN <<data>> ELSE <<>>) \o queue
    /\ Processing => current_test = CurrentTest(data)
\* Two items were taken: run_test raised for the first and post_result for
\* the second, and the worker is waiting for the next item.
C24_Witness ==
    /\ wpc = "get" /\ Len(finished) = 2 /\ task_done = 2
    /\ wraised = {<<1, "run_test">>, <<2, "post_result">>}
    /\ current_test = None

====
